---- MODULE Spec2Model ----
(***************************************************************************)
(* The texture atlas of package glh (atlas.go): a Skyline Bottom-Left      *)
(* rectangle packer over a node list, with a flat pixel buffer.            *)
(***************************************************************************)
EXTENDS Integers, Sequences, FiniteSets, TLC

VARIABLES width, height, depth, nodes, used, data, texture, gl, life,
          regions, op, pre, nsets, nrel, calls,
          wth, attr, mbuf, pw, smb

\* The variables of the texture atlas, and those of the other parts of the
\* package: With (wth), a mesh attribute (attr), the attribute-based
\* MeshBuffer (mbuf), Pow2 (pw) and the state-tracking MeshBuffer (smb).
atlasVars == <<width, height, depth, nodes, used, data, texture, gl, life,
               regions, op, pre, nsets, nrel, calls>>
sideVars == <<wth, attr, mbuf, pw, smb>>

vars == <<width, height, depth, nodes, used, data, texture, gl, life,
          regions, op, pre, nsets, nrel, calls, wth, attr, mbuf, pw, smb>>

(* ------------------------------ bounds -------------------------------- *)

\* Spec: the largest atlas width and height constructed, and the largest
\* pixel buffer (width * height * depth bytes).
MaxWidth == 7
MaxHeight == 5
MaxBytes == 28
\* The largest requested region width and height.
MaxReqW == 3
MaxReqH == 2

\* SpecRow (runs of identical requests): the largest atlas width and height.
RowMaxWidth == 8
RowMaxHeight == 7

\* SpecScenario (the 16 x 16 x 1 atlas): the number of Allocate calls and the
\* largest requested width and height.
ScnCalls == 2
ScnMaxReq == 4

\* SpecPix (Allocate, Clear and Set): the largest atlas width and height, the
\* largest pixel buffer and the largest number of Set calls.
PixMaxWidth == 4
PixMaxHeight == 4
PixMaxBytes == 16
MaxSets == 1

\* SpecLife: NewTextureAtlas is tried with depth 0 .. MaxDepth, and Release
\* is called at most MaxReleases times.
MaxDepth == 5
MaxReleases == 2

\* SpecAny: atlases of depth 1 from 3x3 up to AnyMaxWidth x AnyMaxHeight and
\* requests of 0 .. AnyMaxReq by 0 .. AnyMaxReq, made while fewer than
\* AnyCalls different regions have been returned since the last Clear and
\* the node list has at most AnyMaxNodes nodes (requests of width 0 can
\* lengthen it without end).
AnyMaxWidth == 4
AnyMaxHeight == 4
AnyMaxReq == 2
AnyCalls == 2
AnyMaxNodes == 3

\* SpecWith: With is called at most WithCalls times, with a context that is
\* one context or a Compound of up to WithMaxContexts contexts.
WithCalls == 3
WithMaxContexts == 2

\* SpecAttr: attributes of 1 .. AttrMaxSize elements per component holding at
\* most AttrMaxLen elements, each at most AttrMaxValue.
AttrMaxSize == 2
AttrMaxLen == 4
AttrMaxValue == 2

\* SpecMesh: attributes of 1 .. MeshMaxSize elements per component, at most
\* MeshCalls calls of Add, each list of at most MeshMaxList elements, and at most
\* MeshMaxTotal elements stored in the five attributes together.
MeshMaxSize == 2
MeshCalls == 2
MeshMaxList == 1
MeshMaxTotal == 2

\* SpecPow: the arguments of Pow2 are the 32-bit values whose binary form is
\* a run of low ones with at most PowMaxBits bits flipped.
PowMaxBits == 1

\* SpecSmb: at most SmbCalls calls of Append since creation or the last Clear,
\* each list of a mesh of at most SmbMaxList elements, and at most SmbMaxTotal
\* elements stored in the five lists together.
SmbCalls == 2
SmbMaxList == 1
SmbMaxTotal == 3

\* SpecRace: atlases of depth 1 from 3x3 up to RaceMaxWidth x RaceMaxHeight,
\* two callers that begin at most RaceCalls Allocate calls between them, for
\* regions of up to RaceMaxReq x RaceMaxReq.
RaceMaxWidth == 4
RaceMaxHeight == 3
RaceCalls == 3
RaceMaxReq == 2

(* ------------------------- program constants -------------------------- *)

\* bestWidth, bestHeight start at 1<<31 - 1.
MaxInt32 == 2147483647

\* The depths NewTextureAtlas accepts.
Depths == {1, 3, 4}

\* The width of uint32, the type of Pow2.
WordBits == 32

(* ------------------------------ helpers ------------------------------- *)

atlasNode(x, y, z) == [x |-> x, y |-> y, z |-> z]

AtlasRegion(X, Y, W, H) == [X |-> X, Y |-> Y, W |-> W, H |-> H]

\* copy(s[i:], s[i+1:]); s = s[:len(s)-1]  (1-based i)
RemoveAt(s, i) == SubSeq(s, 1, i - 1) \o SubSeq(s, i + 1, Len(s))

\* append(s, zero); copy(s[i+1:], s[i:]); s[i] = e  (1-based i)
InsertAt(s, i, e) == SubSeq(s, 1, i - 1) \o <<e>> \o SubSeq(s, i, Len(s))

(* -------------------------------- fit --------------------------------- *)

\* The loop of fit: index is 1-based; the result is [panic, y], panic
\* standing for the index-out-of-range panic of a.nodes[index].
\* fitLoop keeping the last node's y instead of the largest.
RECURSIVE fitLoopLast(_, _, _, _, _, _)
fitLoopLast(ns, aheight, index, y, remainder, h) ==
    IF remainder <= 0 THEN [panic |-> FALSE, y |-> y]
    ELSE IF index > Len(ns) THEN [panic |-> TRUE, y |-> 0]
    ELSE LET node == ns[index]
         IN  IF node.y + h > aheight - 1 THEN [panic |-> FALSE, y |-> -1]
             ELSE fitLoopLast(ns, aheight, index + 1, node.y, remainder - node.z, h)

\* fitLoop letting the region reach the last row of the atlas.
RECURSIVE fitLoopTall(_, _, _, _, _, _)
fitLoopTall(ns, aheight, index, y, remainder, h) ==
    IF remainder <= 0 THEN [panic |-> FALSE, y |-> y]
    ELSE IF index > Len(ns) THEN [panic |-> TRUE, y |-> 0]
    ELSE LET node == ns[index]
             ny == IF node.y > y THEN node.y ELSE y
         IN  IF ny + h > aheight THEN [panic |-> FALSE, y |-> -1]
             ELSE fitLoopTall(ns, aheight, index + 1, ny, remainder - node.z, h)

\* fitLoop without the check against the atlas height.
RECURSIVE fitLoopNoHeight(_, _, _, _, _, _)
fitLoopNoHeight(ns, aheight, index, y, remainder, h) ==
    IF remainder <= 0 THEN [panic |-> FALSE, y |-> y]
    ELSE IF index > Len(ns) THEN [panic |-> TRUE, y |-> 0]
    ELSE LET node == ns[index]
             ny == IF node.y > y THEN node.y ELSE y
         IN  fitLoopNoHeight(ns, aheight, index + 1, ny, remainder - node.z, h)

RECURSIVE fitLoop(_, _, _, _, _, _)
fitLoop(ns, aheight, index, y, remainder, h) ==
    IF remainder <= 0 THEN [panic |-> FALSE, y |-> y]
    ELSE IF index > Len(ns) THEN [panic |-> TRUE, y |-> 0]
    ELSE LET node == ns[index]
             ny == IF node.y > y THEN node.y ELSE y
         IN  IF ny + h > aheight - 1 THEN [panic |-> FALSE, y |-> -1]
             ELSE fitLoop(ns, aheight, index + 1, ny, remainder - node.z, h)

\* fit looking at node index only, not at the nodes after it.
fitNoScan(ns, awidth, aheight, index, w, h) ==
    LET node == ns[index]
    IN  IF node.x + w > awidth - 1 THEN [panic |-> FALSE, y |-> -1]
        ELSE IF node.y + h > aheight - 1 THEN [panic |-> FALSE, y |-> -1]
        ELSE [panic |-> FALSE, y |-> node.y]

\* fit without the check of the right edge.
fitNoWidthCheck(ns, awidth, aheight, index, w, h) ==
    fitLoop(ns, aheight, index, ns[index].y, w, h)

\* fit(index, w, h) on node list ns (index 1-based): [panic, y], y = -1 for
\* no fit.
fit(ns, awidth, aheight, index, w, h) ==
    LET node == ns[index]
    IN  IF node.x + w > awidth - 1 THEN [panic |-> FALSE, y |-> -1]
        ELSE fitLoop(ns, aheight, index, node.y, w, h)

(* ------------------------------- merge -------------------------------- *)

\* mergeLoop moving on after fusing two nodes (no i--).
RECURSIVE mergeLoopAdvance(_, _)
mergeLoopAdvance(ns, i) ==
    IF i > Len(ns) - 1 THEN ns
    ELSE IF ns[i].y # ns[i + 1].y THEN mergeLoopAdvance(ns, i + 1)
    ELSE mergeLoopAdvance(RemoveAt([ns EXCEPT ![i].z = ns[i].z + ns[i + 1].z], i + 1), i + 1)

RECURSIVE mergeLoop(_, _)
mergeLoop(ns, i) ==
    IF i > Len(ns) - 1 THEN ns
    ELSE IF ns[i].y # ns[i + 1].y THEN mergeLoop(ns, i + 1)
    ELSE mergeLoop(RemoveAt([ns EXCEPT ![i].z = ns[i].z + ns[i + 1].z], i + 1), i)

\* merge doing nothing.
mergeNone(ns) == ns

merge(ns) == mergeLoop(ns, 1)

(* ------------------------------ Allocate ------------------------------ *)

\* bestLoop without the tie-break on the node's width.
RECURSIVE bestLoopFirst(_, _, _, _, _, _, _)
bestLoopFirst(ns, awidth, aheight, w, h, index, best) ==
    IF index > Len(ns) THEN best
    ELSE LET f == fit(ns, awidth, aheight, index, w, h)
             node == ns[index]
         IN  IF f.panic THEN [best EXCEPT !.panic = TRUE]
             ELSE IF f.y < 0 THEN bestLoopFirst(ns, awidth, aheight, w, h, index + 1, best)
             ELSE IF f.y + h < best.height
             THEN bestLoopFirst(ns, awidth, aheight, w, h, index + 1,
                                [panic |-> FALSE, index |-> index, width |-> node.z,
                                 height |-> f.y + h, X |-> node.x, Y |-> f.y])
             ELSE bestLoopFirst(ns, awidth, aheight, w, h, index + 1, best)

\* The best-node scan of Allocate over indices index..len(a.nodes).
RECURSIVE bestLoop(_, _, _, _, _, _, _)
bestLoop(ns, awidth, aheight, w, h, index, best) ==
    IF index > Len(ns) THEN best
    ELSE LET f == fit(ns, awidth, aheight, index, w, h)
             node == ns[index]
         IN  IF f.panic THEN [best EXCEPT !.panic = TRUE]
             ELSE IF f.y < 0 THEN bestLoop(ns, awidth, aheight, w, h, index + 1, best)
             ELSE IF (f.y + h < best.height)
                     \/ (f.y + h = best.height /\ node.z < best.width)
             THEN bestLoop(ns, awidth, aheight, w, h, index + 1,
                           [panic |-> FALSE, index |-> index, width |-> node.z,
                            height |-> f.y + h, X |-> node.x, Y |-> f.y])
             ELSE bestLoop(ns, awidth, aheight, w, h, index + 1, best)

\* bestScan starting at the second node.
bestScanSkipFirst(ns, awidth, aheight, w, h) ==
    bestLoop(ns, awidth, aheight, w, h, 2,
             [panic |-> FALSE, index |-> 0, width |-> MaxInt32,
              height |-> MaxInt32, X |-> 0, Y |-> 0])

\* bestIndex is -1 in the code (0-based); 0 here (1-based).
bestScan(ns, awidth, aheight, w, h) ==
    bestLoop(ns, awidth, aheight, w, h, 1,
             [panic |-> FALSE, index |-> 0, width |-> MaxInt32,
              height |-> MaxInt32, X |-> 0, Y |-> 0])

\* shrinkLoop stopping after the first node it shrinks, emptied or not.
shrinkLoopOnce(ns, i) ==
    IF i > Len(ns) THEN ns
    ELSE LET curr == ns[i]
             prev == ns[i - 1]
             shrink == prev.x + prev.z - curr.x
         IN  IF curr.x >= prev.x + prev.z THEN ns
             ELSE [ns EXCEPT ![i] = atlasNode(curr.x + shrink, curr.y, curr.z - shrink)]

\* "Adjust subsequent nodes": the loop from i = bestIndex + 1.
RECURSIVE shrinkLoop(_, _)
shrinkLoop(ns, i) ==
    IF i > Len(ns) THEN ns
    ELSE LET curr == ns[i]
             prev == ns[i - 1]
             shrink == prev.x + prev.z - curr.x
         IN  IF curr.x >= prev.x + prev.z THEN ns
             ELSE IF curr.z - shrink > 0
                  THEN [ns EXCEPT ![i] = atlasNode(curr.x + shrink, curr.y, curr.z - shrink)]
                  ELSE shrinkLoop(RemoveAt(ns, i), i)

\* insertNode giving the new node the region's y instead of its top.
insertNodeFlat(ns, b, w, h) ==
    shrinkLoop(InsertAt(ns, b.index, atlasNode(b.X, b.Y, w)), b.index + 1)

\* insertNode leaving the nodes after the new one as they are.
insertNodeNoShrink(ns, b, w, h) ==
    InsertAt(ns, b.index, atlasNode(b.X, b.Y + h, w))

\* The node list after inserting the new node at bestIndex and adjusting.
insertNode(ns, b, w, h) ==
    shrinkLoop(InsertAt(ns, b.index, atlasNode(b.X, b.Y + h, w)), b.index + 1)

\* AllocateResult adding the width, not the area, to used.
AllocateResultWidth(ns, u, awidth, aheight, w, h) ==
    LET b == bestScan(ns, awidth, aheight, w, h)
    IN  IF b.panic
        THEN [panic |-> TRUE, ok |-> FALSE, region |-> AtlasRegion(0, 0, w, h),
              nodes |-> ns, used |-> u]
        ELSE IF b.index = 0
        THEN [panic |-> FALSE, ok |-> FALSE, region |-> AtlasRegion(b.X, b.Y, w, h),
              nodes |-> ns, used |-> u]
        ELSE [panic |-> FALSE, ok |-> TRUE, region |-> AtlasRegion(b.X, b.Y, w, h),
              nodes |-> merge(insertNode(ns, b, w, h)), used |-> u + w]

\* AllocateResult adding the area to used before looking for a node.
AllocateResultCount(ns, u, awidth, aheight, w, h) ==
    LET b == bestScan(ns, awidth, aheight, w, h)
    IN  IF b.panic
        THEN [panic |-> TRUE, ok |-> FALSE, region |-> AtlasRegion(0, 0, w, h),
              nodes |-> ns, used |-> u]
        ELSE IF b.index = 0
        THEN [panic |-> FALSE, ok |-> FALSE, region |-> AtlasRegion(b.X, b.Y, w, h),
              nodes |-> ns, used |-> u + w * h]
        ELSE [panic |-> FALSE, ok |-> TRUE, region |-> AtlasRegion(b.X, b.Y, w, h),
              nodes |-> merge(insertNode(ns, b, w, h)), used |-> u + w * h]

\* Allocate as a function of the atlas fields: the outcome, the returned
\* region and the new node list and used.
AllocateResult(ns, u, awidth, aheight, w, h) ==
    LET b == bestScan(ns, awidth, aheight, w, h)
    IN  IF b.panic
        THEN [panic |-> TRUE, ok |-> FALSE, region |-> AtlasRegion(0, 0, w, h),
              nodes |-> ns, used |-> u]
        ELSE IF b.index = 0
        THEN [panic |-> FALSE, ok |-> FALSE, region |-> AtlasRegion(b.X, b.Y, w, h),
              nodes |-> ns, used |-> u]
        ELSE [panic |-> FALSE, ok |-> TRUE, region |-> AtlasRegion(b.X, b.Y, w, h),
              nodes |-> merge(insertNode(ns, b, w, h)), used |-> u + w * h]

(* -------------------------------- Set --------------------------------- *)

\* The source bytes handed to Set: n bytes, byte j being (seed + j) mod 256.
SrcBytes(seed, n) == [j \in 0 .. n - 1 |-> (seed + j) % 256]

\* The row loop of Set from row i on: [panic, data]. The slice expressions
\* dst[dp:dp+stride] and src[sp:sp+stride] panic when out of range; rows
\* copied before the panic stay copied.
RECURSIVE setLoop(_, _, _, _, _, _, _, _)
setLoop(d, awidth, adepth, region, srclen, seed, stride, i) ==
    IF i >= region.H THEN [panic |-> FALSE, data |-> d]
    ELSE LET dp == ((region.Y + i) * awidth + region.X) * adepth
             sp == i * stride
             dlen == Cardinality(DOMAIN d)
             src == SrcBytes(seed, srclen)
         IN  IF dp < 0 \/ stride < 0 \/ dp + stride > dlen \/ sp + stride > srclen
             THEN [panic |-> TRUE, data |-> d]
             ELSE setLoop([k \in DOMAIN d |->
                              IF k >= dp /\ k < dp + stride
                              THEN src[sp + (k - dp)] ELSE d[k]],
                          awidth, adepth, region, srclen, seed, stride, i + 1)

SetResult(d, awidth, adepth, region, srclen, seed, stride) ==
    setLoop(d, awidth, adepth, region, srclen, seed, stride, 0)

(* ------------------------------- state -------------------------------- *)

\* width, height, depth, nodes, used, data, texture: the fields of
\*          TextureAtlas.
\* gl:      the rendering backend: the number of gl.GenTexture calls and the
\*          handles gl.Texture.Delete was called on, in order.
\* life:    "none" before NewTextureAtlas has returned an atlas, "live"
\*          after, "released" after Release.
\* regions: the regions returned by successful Allocate calls since
\*          construction or the last Clear.
\* op:      the last call, its arguments and its outcome.
\* pre:     nodes, used, data and regions as they were when the last call
\*          began.
\* nsets:   the number of Set calls so far.
\* nrel:    the number of Release calls so far.
\* calls:   the Allocate calls of two concurrent callers (SpecRace).

NoRegion == AtlasRegion(0, 0, 0, 0)

\* The other parts of the package are not in use.
Unused == <<>>
SidesUnused ==
    wth = Unused /\ attr = Unused /\ mbuf = Unused /\ pw = Unused /\ smb = Unused

OpRec(name, w, h, outcome, region) ==
    [name |-> name, w |-> w, h |-> h, outcome |-> outcome, region |-> region,
     d |-> 0]

Snapshot(ns, u, d, rs) == [nodes |-> ns, used |-> u, data |-> d, regions |-> rs]

\* The two callers of SpecRace. A caller is "idle" outside Allocate and
\* "scanned" between the scan for the best node and the insertion of the new
\* node; best and region are the bestIndex (1-based) and the region of its
\* scan, n the number of calls it has begun. raced: some scan ran while the
\* other caller was between its scan and its insertion.
Callers == {1, 2}
IdleCall == [pc |-> "idle", best |-> 0, region |-> NoRegion, n |-> 0]
NoCalls == [raced |-> FALSE, of |-> [p \in Callers |-> IdleCall]]

\* InitialNodes without the one-pixel border.
InitialNodesNoBorder(awidth) == <<atlasNode(0, 0, awidth)>>

\* The initial node list: one node spanning the atlas inside its border.
InitialNodes(awidth) == <<atlasNode(1, 1, awidth - 2)>>

\* NewResult asking for the texture before it looks at depth.
NewResultLateCheck(w, h, d) ==
    IF d \notin Depths
    THEN [panic |-> TRUE, width |-> 0, height |-> 0, depth |-> 0, used |-> 0,
          data |-> <<>>, nodes |-> <<>>, gen |-> 1]
    ELSE [panic |-> FALSE, width |-> w, height |-> h, depth |-> d, used |-> 0,
          data |-> [k \in 0 .. w * h * d - 1 |-> 0],
          nodes |-> InitialNodes(w), gen |-> 1]

\* NewTextureAtlas(w, h, d): whether it panics, the fields of the atlas it
\* returns and the number of gl.GenTexture calls it makes.
NewResult(w, h, d) ==
    IF d \notin Depths
    THEN [panic |-> TRUE, width |-> 0, height |-> 0, depth |-> 0, used |-> 0,
          data |-> <<>>, nodes |-> <<>>, gen |-> 0]
    ELSE [panic |-> FALSE, width |-> w, height |-> h, depth |-> d, used |-> 0,
          data |-> [k \in 0 .. w * h * d - 1 |-> 0],
          nodes |-> InitialNodes(w), gen |-> 1]

\* a = NewTextureAtlas(w, h, d) with an accepted depth.
NewTextureAtlas(w, h, d) ==
    /\ width = w
    /\ height = h
    /\ depth = d
    /\ used = 0
    /\ data = [k \in 0 .. w * h * d - 1 |-> 0]
    /\ nodes = InitialNodes(w)
    /\ texture = 1
    /\ gl = [gen |-> 1, deleted |-> <<>>]
    /\ life = "live"
    /\ regions = {}
    /\ op = OpRec("New", 0, 0, "ok", NoRegion)
    /\ pre = Snapshot(nodes, used, data, regions)
    /\ nsets = 0
    /\ nrel = 0
    /\ calls = NoCalls
    /\ SidesUnused

\* AllocateCall wiping the pixel buffer when it returns a region.
AllocateCallScrub(w, h) ==
    LET r == AllocateResult(nodes, used, width, height, w, h)
    IN  /\ life # "none"
        /\ nodes' = r.nodes
        /\ used' = r.used
        /\ data' = IF r.ok THEN [k \in DOMAIN data |-> 0] ELSE data
        /\ regions' = IF r.ok THEN regions \cup {r.region} ELSE regions
        /\ op' = OpRec("Allocate", w, h,
                       IF r.panic THEN "panic" ELSE IF r.ok THEN "ok" ELSE "fail",
                       r.region)
        /\ pre' = Snapshot(nodes, used, data, regions)
        /\ UNCHANGED <<width, height, depth, nsets, texture, gl, life, nrel, calls>>
        /\ UNCHANGED sideVars

\* a.Allocate(w, h)
AllocateCall(w, h) ==
    LET r == AllocateResult(nodes, used, width, height, w, h)
    IN  /\ life # "none"
        /\ nodes' = r.nodes
        /\ used' = r.used
        /\ regions' = IF r.ok THEN regions \cup {r.region} ELSE regions
        /\ op' = OpRec("Allocate", w, h,
                       IF r.panic THEN "panic" ELSE IF r.ok THEN "ok" ELSE "fail",
                       r.region)
        /\ pre' = Snapshot(nodes, used, data, regions)
        /\ UNCHANGED <<width, height, depth, data, nsets, texture, gl, life, nrel, calls>>
        /\ UNCHANGED sideVars

\* a.Allocate(w, h) with w > 0 and h > 0.
Allocate ==
    \E w \in 1 .. MaxReqW, h \in 1 .. MaxReqH : AllocateCall(w, h)

\* ClearResult leaving the pixel buffer as it is.
ClearResultKeepPixels(ns, d, awidth) ==
    IF Len(ns) < 1
    THEN [panic |-> TRUE, used |-> 0, nodes |-> ns, data |-> d]
    ELSE [panic |-> FALSE, used |-> 0, nodes |-> InitialNodes(awidth), data |-> d]

\* Clear: used is reset first; a.nodes[:1] panics on the nil slice that
\* Release leaves; then the first node is reset and the buffer zeroed.
ClearResult(ns, d, awidth) ==
    IF Len(ns) < 1
    THEN [panic |-> TRUE, used |-> 0, nodes |-> ns, data |-> d]
    ELSE [panic |-> FALSE, used |-> 0, nodes |-> InitialNodes(awidth),
          data |-> [k \in DOMAIN d |-> 0]]

\* a.Clear()
Clear ==
    LET r == ClearResult(nodes, data, width)
    IN  /\ life # "none"
        /\ used' = r.used
        /\ nodes' = r.nodes
        /\ data' = r.data
        /\ regions' = IF r.panic THEN regions ELSE {}
        /\ op' = OpRec("Clear", 0, 0, IF r.panic THEN "panic" ELSE "ok", NoRegion)
        /\ pre' = Snapshot(nodes, used, data, regions)
        /\ UNCHANGED <<width, height, depth, nsets, texture, gl, life, nrel, calls>>
        /\ UNCHANGED sideVars

\* The source bytes of the Set calls start at this value.
SrcSeeds == {250}

\* Regions that no Allocate returned: a pixel of the border, and a region
\* that starts at the last pixel and runs past the end of the buffer.
ForeignRegions ==
    {AtlasRegion(0, 0, 1, 1), AtlasRegion(width - 1, height - 1, 1, 2)}

\* The strides tried for a region: one byte less than its row, its row, one
\* byte more, and one byte more than a row of the atlas.
Strides(region) ==
    {region.W * depth - 1, region.W * depth, region.W * depth + 1,
     width * depth + 1}

\* a.Set(region, src, stride): region returned since the last Clear or a
\* foreign one, src of region.H * stride bytes or one byte less.
Set ==
    /\ life # "none"
    /\ nsets < MaxSets
    /\ \E region \in regions \cup ForeignRegions :
         \E stride \in Strides(region), seed \in SrcSeeds, short \in {0, 1} :
            LET srclen == region.H * stride - short
                r == SetResult(data, width, depth, region, srclen, seed, stride)
            IN  /\ srclen >= 0
                /\ data' = r.data
                /\ op' = [OpRec("Set", stride, srclen,
                                IF r.panic THEN "panic" ELSE "ok", region)
                          EXCEPT !.d = seed]
    /\ pre' = Snapshot(nodes, used, data, regions)
    /\ nsets' = nsets + 1
    /\ UNCHANGED <<width, height, depth, nodes, used, regions, texture, gl, life,
                   nrel, calls>>
    /\ UNCHANGED sideVars

\* a = NewTextureAtlas(w, h, d), for any depth: on a panic no atlas comes
\* into being.
Construct ==
    /\ life = "none"
    /\ \E w \in 0 .. PixMaxWidth, h \in 0 .. PixMaxHeight, d \in 0 .. MaxDepth :
         LET r == NewResult(w, h, d)
         IN  /\ Cardinality(DOMAIN r.data) <= PixMaxBytes
             /\ width' = r.width
             /\ height' = r.height
             /\ depth' = r.depth
             /\ used' = r.used
             /\ data' = r.data
             /\ nodes' = r.nodes
             /\ gl' = [gl EXCEPT !.gen = @ + r.gen]
             /\ texture' = IF r.panic THEN 0 ELSE gl.gen + r.gen
             /\ life' = IF r.panic THEN "none" ELSE "live"
             /\ op' = [OpRec("New", w, h, IF r.panic THEN "panic" ELSE "ok", NoRegion)
                       EXCEPT !.d = d]
    /\ regions' = {}
    /\ pre' = Snapshot(nodes, used, data, regions)
    /\ UNCHANGED <<nsets, nrel, calls>>
    /\ UNCHANGED sideVars

\* ReleaseResult leaving the handle in a.texture.
ReleaseResultKeepHandle(tex, g) ==
    [texture |-> tex, gl |-> [g EXCEPT !.deleted = Append(@, tex)]]

\* a.texture.Delete(); a.texture = 0
ReleaseResult(tex, g) ==
    [texture |-> 0, gl |-> [g EXCEPT !.deleted = Append(@, tex)]]

\* a.Release()
Release ==
    LET r == ReleaseResult(texture, gl)
    IN  /\ life # "none"
        /\ nrel < MaxReleases
        /\ data' = <<>>
        /\ nodes' = <<>>
        /\ texture' = r.texture
        /\ gl' = r.gl
        /\ width' = 0
        /\ height' = 0
        /\ depth' = 0
        /\ used' = 0
        /\ life' = "released"
        /\ nrel' = nrel + 1
        /\ op' = OpRec("Release", 0, 0, "ok", NoRegion)
        /\ pre' = Snapshot(nodes, used, data, regions)
        /\ UNCHANGED <<regions, nsets, calls>>
        /\ UNCHANGED sideVars

\* CommitResult putting the new node at the end of the list.
CommitResultAppend(ns, u, index, region) ==
    IF index > Len(ns) + 1
    THEN [panic |-> TRUE, nodes |-> Append(ns, atlasNode(0, 0, 0)), used |-> u]
    ELSE [panic |-> FALSE,
          nodes |-> merge(Append(ns, atlasNode(region.X, region.Y + region.H,
                                               region.W))),
          used |-> u + region.W * region.H]

\* The second half of Allocate, from the insertion on, for the bestIndex
\* (1-based) and the region of a scan: the insertion panics in
\* a.nodes[bestIndex+1:] when bestIndex is beyond the end of the list as it
\* is by then, after the append of a zero node.
CommitResult(ns, u, index, region) ==
    IF index > Len(ns) + 1
    THEN [panic |-> TRUE, nodes |-> Append(ns, atlasNode(0, 0, 0)), used |-> u]
    ELSE [panic |-> FALSE,
          nodes |-> merge(insertNode(ns, [index |-> index, X |-> region.X,
                                          Y |-> region.Y],
                                     region.W, region.H)),
          used |-> u + region.W * region.H]

\* Caller p runs the first half of a.Allocate(w, h): the scan for the best
\* node. A scan that finds no node returns failure.
RaceScan(p) ==
    /\ calls.of[p].pc = "idle"
    /\ calls.of[1].n + calls.of[2].n < RaceCalls
    /\ \E w \in 1 .. RaceMaxReq, h \in 1 .. RaceMaxReq :
         LET b == bestScan(nodes, width, height, w, h)
             found == ~b.panic /\ b.index # 0
             region == AtlasRegion(b.X, b.Y, w, h)
         IN  /\ calls' = [raced |-> calls.raced \/
                                    \E q \in Callers \ {p} : calls.of[q].pc = "scanned",
                          of |-> [calls.of EXCEPT ![p] =
                                    [pc |-> IF found THEN "scanned" ELSE "idle",
                                     best |-> b.index,
                                     region |-> region,
                                     n |-> @.n + 1]]]
             /\ op' = IF found THEN op
                      ELSE OpRec("Allocate", w, h,
                                 IF b.panic THEN "panic" ELSE "fail", region)
             /\ pre' = IF found THEN pre ELSE Snapshot(nodes, used, data, regions)
    /\ UNCHANGED <<width, height, depth, nodes, used, data, texture, gl, life,
                   regions, nsets, nrel>>
    /\ UNCHANGED sideVars

\* Caller p runs the second half of its Allocate and returns.
RaceCommit(p) ==
    LET c == calls.of[p]
        r == CommitResult(nodes, used, c.best, c.region)
    IN  /\ c.pc = "scanned"
        /\ nodes' = r.nodes
        /\ used' = r.used
        /\ regions' = IF r.panic THEN regions ELSE regions \cup {c.region}
        /\ calls' = [calls EXCEPT !.of[p].pc = "idle"]
        /\ op' = OpRec("Allocate", c.region.W, c.region.H,
                       IF r.panic THEN "panic" ELSE "ok", c.region)
        /\ pre' = Snapshot(nodes, used, data, regions)
        /\ UNCHANGED <<width, height, depth, data, texture, gl, life, nsets, nrel>>
        /\ UNCHANGED sideVars

\* a.Clear(), called while no caller is inside Allocate.
RaceClear ==
    /\ \A p \in Callers : calls.of[p].pc = "idle"
    /\ regions # {}
    /\ Clear

\* a.Allocate(w, h) for any w >= 0 and h >= 0, zero included. (Negative
\* arguments are left out: used += uint(w*h) of a negative product needs the
\* 64 bits of uint.)
AllocateAny ==
    /\ Cardinality(regions) < AnyCalls
    /\ Len(nodes) <= AnyMaxNodes
    /\ \E w \in 0 .. AnyMaxReq, h \in 0 .. AnyMaxReq : AllocateCall(w, h)

(* -------------------------------- With -------------------------------- *)

\* No atlas has been constructed (the state before NewTextureAtlas).
AtlasUnused ==
    /\ width = 0
    /\ height = 0
    /\ depth = 0
    /\ used = 0
    /\ data = <<>>
    /\ nodes = <<>>
    /\ texture = 0
    /\ gl = [gen |-> 0, deleted |-> <<>>]
    /\ life = "none"
    /\ regions = {}
    /\ op = OpRec("Start", 0, 0, "ok", NoRegion)
    /\ pre = Snapshot(nodes, used, data, regions)
    /\ nsets = 0
    /\ nrel = 0
    /\ calls = NoCalls

\* wth: one call of With(c, action) at a time.
\*   pc:        the step With is about to take: "call" (not inside With),
\*              "check1", "Enter", "action", "Exit", "check2", "done".
\*   trace:     the calls With has made in this call of it, in order.
\*   glerr:     gl.GetError would report an error.
\*   panicking: a panic is on its way out of With.
\*   entered:   in this call of With, the calls of c.Enter that returned less
\*              the calls of c.Exit that returned: the state Enter changed
\*              and Exit restores.
\*   k:         the number of contexts c is made of (Compound for k > 1).
\*   n:         the number of With calls begun.
WithStart(e) ==
    [pc |-> "call", trace |-> <<>>, glerr |-> e, panicking |-> FALSE,
     entered |-> 0, k |-> 1, n |-> 0]

\* AfterAction calling c.Exit directly after action instead of deferring it.
AfterActionNoDefer(panicked) == IF panicked THEN "check2" ELSE "Exit"

\* The step after action(): c.Exit is deferred, so it runs whether action
\* returned or panicked.
AfterAction(panicked) == "Exit"

\* With(c, action) is called.
WithCall ==
    /\ wth.pc \in {"call", "done"}
    /\ wth.n < WithCalls
    /\ \E k \in 1 .. WithMaxContexts :
          wth' = [wth EXCEPT !.pc = "check1", !.trace = <<>>, !.panicking = FALSE,
                             !.entered = 0, !.k = k, !.n = @ + 1]
    /\ UNCHANGED <<attr, mbuf, pw, smb>>
    /\ UNCHANGED atlasVars

\* OpenGLSentinel(): check() is run at once; it panics on a GL error, before
\* anything is deferred, and is deferred otherwise. gl.GetError clears the
\* error.
WithCheck1 ==
    /\ wth.pc = "check1"
    /\ wth' = [wth EXCEPT !.trace = Append(@, "check"),
                          !.glerr = FALSE,
                          !.panicking = wth.glerr,
                          !.pc = IF wth.glerr THEN "done" ELSE "Enter"]
    /\ UNCHANGED <<attr, mbuf, pw, smb>>
    /\ UNCHANGED atlasVars

\* c.Enter(): the Enter of each of its contexts in order, j of them returning
\* before one panics (j = k: c.Enter returns); it may leave a GL error. After
\* a panic only the deferred check runs.
WithEnter ==
    /\ wth.pc = "Enter"
    /\ \E j \in 0 .. wth.k, e \in BOOLEAN :
          wth' = [wth EXCEPT !.trace = Append(@, "Enter"),
                             !.glerr = e,
                             !.panicking = j < wth.k,
                             !.entered = j,
                             !.pc = IF j = wth.k THEN "action" ELSE "check2"]
    /\ UNCHANGED <<attr, mbuf, pw, smb>>
    /\ UNCHANGED atlasVars

\* action(): it returns or panics, and may leave a GL error.
WithAction ==
    /\ wth.pc = "action"
    /\ \E ok \in BOOLEAN, e \in BOOLEAN :
          wth' = [wth EXCEPT !.trace = Append(@, "action"),
                             !.glerr = wth.glerr \/ e,
                             !.panicking = ~ok,
                             !.pc = AfterAction(~ok)]
    /\ UNCHANGED <<attr, mbuf, pw, smb>>
    /\ UNCHANGED atlasVars

\* The deferred c.Exit(): the Exit of each of its contexts in reverse order,
\* j of them returning before one panics (j = k: c.Exit returns); it may
\* leave a GL error; the deferred check runs after it in either case.
WithExit ==
    /\ wth.pc = "Exit"
    /\ \E j \in 0 .. wth.k, e \in BOOLEAN :
          wth' = [wth EXCEPT !.trace = Append(@, "Exit"),
                             !.glerr = wth.glerr \/ e,
                             !.panicking = wth.panicking \/ j < wth.k,
                             !.entered = @ - j,
                             !.pc = "check2"]
    /\ UNCHANGED <<attr, mbuf, pw, smb>>
    /\ UNCHANGED atlasVars

\* The deferred check(): it panics on a GL error; With then returns, or
\* panics if a panic is on its way.
WithCheck2 ==
    /\ wth.pc = "check2"
    /\ wth' = [wth EXCEPT !.trace = Append(@, "check"),
                          !.glerr = FALSE,
                          !.panicking = wth.panicking \/ wth.glerr,
                          !.pc = "done"]
    /\ UNCHANGED <<attr, mbuf, pw, smb>>
    /\ UNCHANGED atlasVars

(* ----------------------------- mesh attributes ------------------------ *)

\* The typed attributes. Their methods are the same text for every type but
\* for the element type and the value given to SetDirty.
AttrTypes ==
    {"Int8", "Uint8", "Int16", "Uint16", "Int32", "Uint32", "Float32", "Float64"}

\* Sizeof(typ): the size of an element in bytes.
AttrStride(typ) ==
    CASE typ \in {"Int8", "Uint8"} -> 1
      [] typ \in {"Int16", "Uint16"} -> 2
      [] typ \in {"Int32", "Uint32", "Float32"} -> 4
      [] typ = "Float64" -> 8

\* attr: one attribute.
\*   typ, size, data, gpuSize, dirty: the type and the fields of the attribute.
\*   changed: Append, Remove, Increment or Clear was called since creation or
\*            the last Buffer.
\*   last, outcome: the last call and whether it returned ("ok") or panicked.
NewAttr(typ, size) ==
    [typ |-> typ, size |-> size, data |-> <<>>, gpuSize |-> 0, dirty |-> FALSE,
     changed |-> FALSE, last |-> "New", outcome |-> "ok"]

\* The value Increment gives to SetDirty.
IncrementDirty(typ) == IF typ = "Int8" THEN FALSE ELSE TRUE

\* The value Buffer gives to SetDirty.
BufferDirty(typ) == IF typ = "Int16" THEN TRUE ELSE FALSE

\* a.Append(v) for a slice v of n elements of value 1.
AttrAppend ==
    /\ attr.last # "Unused"
    /\ \E n \in 0 .. AttrMaxLen - Len(attr.data) :
          attr' = [attr EXCEPT !.data = @ \o [i \in 1 .. n |-> 1],
                               !.dirty = TRUE,
                               !.changed = TRUE,
                               !.last = "Append", !.outcome = "ok"]
    /\ UNCHANGED <<wth, mbuf, pw, smb>>
    /\ UNCHANGED atlasVars

\* a.Remove(s, c) for s >= 0 and c >= 0: the slice expressions a.data[s:] and
\* a.data[s+c:] panic when the range is not inside the data, before anything
\* is changed.
AttrRemove ==
    /\ attr.last # "Unused"
    /\ \E s \in 0 .. AttrMaxLen, c \in 0 .. AttrMaxLen :
          LET from == s * attr.size
              n == c * attr.size
              len == Len(attr.data)
          IN  attr' = IF from + n > len
                      THEN [attr EXCEPT !.last = "Remove", !.outcome = "panic"]
                      ELSE [attr EXCEPT
                              !.data = SubSeq(@, 1, from) \o SubSeq(@, from + n + 1, len),
                              !.dirty = TRUE,
                              !.changed = TRUE,
                              !.last = "Remove", !.outcome = "ok"]
    /\ UNCHANGED <<wth, mbuf, pw, smb>>
    /\ UNCHANGED atlasVars

\* a.Increment(start, 1) for start >= 0, while every element is below
\* AttrMaxValue (so no element type overflows).
AttrIncrement ==
    /\ attr.last # "Unused"
    /\ \A i \in 1 .. Len(attr.data) : attr.data[i] < AttrMaxValue
    /\ \E start \in 0 .. AttrMaxLen :
          attr' = [attr EXCEPT
                     !.data = [i \in 1 .. Len(@) |-> IF i > start THEN @[i] + 1 ELSE @[i]],
                     !.dirty = IncrementDirty(attr.typ),
                     !.changed = TRUE,
                     !.last = "Increment", !.outcome = "ok"]
    /\ UNCHANGED <<wth, mbuf, pw, smb>>
    /\ UNCHANGED atlasVars

\* a.Clear(): AttrBase.Clear and a.data = nil.
AttrClear ==
    /\ attr.last # "Unused"
    /\ attr' = [attr EXCEPT !.gpuSize = 0, !.dirty = TRUE, !.data = <<>>,
                            !.changed = TRUE,
                            !.last = "Clear", !.outcome = "ok"]
    /\ UNCHANGED <<wth, mbuf, pw, smb>>
    /\ UNCHANGED atlasVars

\* a.Buffer(): the data goes to the GPU.
AttrBuffer ==
    /\ attr.last # "Unused"
    /\ attr' = [attr EXCEPT !.gpuSize = Len(attr.data) * AttrStride(attr.typ),
                            !.dirty = BufferDirty(attr.typ),
                            !.changed = FALSE,
                            !.last = "Buffer", !.outcome = "ok"]
    /\ UNCHANGED <<wth, mbuf, pw, smb>>
    /\ UNCHANGED atlasVars

(* ------------------------------ mesh buffer --------------------------- *)

\* mb.attr in its order: position, color, normal, texture, index.
AttrNames == <<"position", "color", "normal", "texture", "index">>

\* A list that is nil.
NilList == -1

\* new(Mesh): every field zero.
NewMesh ==
    [PS |-> 0, PC |-> 0, CS |-> 0, CC |-> 0, NS |-> 0, NC |-> 0,
     TS |-> 0, TC |-> 0, IS |-> 0, IC |-> 0]

\* mbuf: a mesh buffer.
\*   size[i], len[i]: Size() and Len() of mb.attr[i]; a NullAttr has size 0.
\*   idata: the data of the index attribute.
\*   meshes: mb.meshes.
\*   last, outcome, ret: the last call, whether it returned or panicked, and
\*                       the value it returned.
\*   calls: the number of Add calls since creation or the last Clear.
\*   lists, before: the lists given to the last Add (their lengths) and len
\*                  before it.
NewMeshBuffer(size) ==
    [size |-> size, len |-> [i \in 1 .. 5 |-> 0], idata |-> <<>>, meshes |-> <<>>,
     last |-> "New", outcome |-> "ok", ret |-> 0, calls |-> 0,
     lists |-> [i \in 1 .. 5 |-> NilList], before |-> [i \in 1 .. 5 |-> 0]]

\* The attributes Add appends to: those of non-zero size before the first
\* one whose list is nil (where Add panics).
Missing(mb, lists) == {i \in 1 .. 5 : mb.size[i] > 0 /\ lists[i] = NilList}

Appended(mb, lists) ==
    {i \in 1 .. 5 : mb.size[i] > 0 /\ \A j \in Missing(mb, lists) : i < j}

\* The Mesh that Add fills in.
AddMesh(mb, lists) ==
    LET start(i) == mb.len[i] \div mb.size[i]
        count(i) == lists[i] \div mb.size[i]
        on(i) == mb.size[i] > 0
    IN  [PS |-> IF on(1) THEN start(1) ELSE 0,
         PC |-> IF on(1) THEN count(1) ELSE 0,
         CS |-> 0,
         CC |-> IF on(2) THEN count(2) ELSE 0,
         NS |-> IF on(3) THEN start(3) ELSE 0,
         NC |-> IF on(3) THEN count(3) ELSE 0,
         TS |-> IF on(4) THEN start(4) ELSE 0,
         TC |-> IF on(4) THEN count(4) ELSE 0,
         IS |-> IF on(5) THEN start(5) ELSE 0,
         IC |-> IF on(5) THEN count(5) ELSE 0]

\* ia.Append(indices) for indices of value 0, then ia.Increment(m.IS, m.PS).
AddIndices(mb, lists, m) ==
    LET all == mb.idata \o [i \in 1 .. lists[5] |-> 0]
    IN  [i \in 1 .. Len(all) |-> IF i > m.IS THEN all[i] + m.PS ELSE all[i]]

\* mb.Add(indices, positions, colors, normals, textures), lists[i] being the
\* length of the list for mb.attr[i].
AddResult(mb, lists) ==
    LET to == Appended(mb, lists)
        m == AddMesh(mb, lists)
        grown == [mb EXCEPT !.len = [i \in 1 .. 5 |-> IF i \in to THEN @[i] + lists[i] ELSE @[i]],
                            !.last = "Add",
                            !.lists = lists,
                            !.before = mb.len]
    IN  IF Missing(mb, lists) # {}
        THEN [grown EXCEPT !.outcome = "panic"]
        ELSE [grown EXCEPT !.idata = IF mb.size[5] > 0 THEN AddIndices(mb, lists, m) ELSE @,
                           !.meshes = Append(@, m),
                           !.outcome = "ok",
                           !.ret = Len(mb.meshes)]

\* The number of elements stored in the five attributes together.
Stored(mb) == mb.len[1] + mb.len[2] + mb.len[3] + mb.len[4] + mb.len[5]

\* Add with a list for every attribute of non-zero size, but for at most one
\* (nil), and nil for the others.
MeshAdd ==
    /\ mbuf.last # "Unused"
    /\ mbuf.calls < MeshCalls
    /\ \E n \in [1 .. 5 -> 0 .. MeshMaxList], nil \in 0 .. 5 :
          LET lists == [i \in 1 .. 5 |->
                          IF mbuf.size[i] = 0 \/ i = nil THEN NilList ELSE n[i]]
          IN  /\ \A i \in 1 .. 5 : mbuf.size[i] = 0 => n[i] = 0
              /\ nil # 0 => mbuf.size[nil] > 0
              /\ Stored(mbuf) + n[1] + n[2] + n[3] + n[4] + n[5] <= MeshMaxTotal
              /\ mbuf' = [AddResult(mbuf, lists) EXCEPT !.calls = @ + 1]
    /\ UNCHANGED <<wth, attr, pw, smb>>
    /\ UNCHANGED atlasVars

\* mb.Clear(): every attribute is cleared and mb.meshes = mb.meshes[:0].
MeshClear ==
    /\ mbuf.last # "Unused"
    /\ mbuf' = [mbuf EXCEPT !.len = [i \in 1 .. 5 |-> 0],
                            !.idata = <<>>,
                            !.meshes = <<>>,
                            !.last = "Clear", !.outcome = "ok", !.ret = 0, !.calls = 0,
                            !.lists = [i \in 1 .. 5 |-> NilList],
                            !.before = [i \in 1 .. 5 |-> 0]]
    /\ UNCHANGED <<wth, attr, pw, smb>>
    /\ UNCHANGED atlasVars

(* ---------------------------------- Pow2 ------------------------------ *)

\* A uint32 is the set of the positions of its one bits, bit 0 being the
\* lowest; the operators below are those of Go on uint32.
Bits == 0 .. WordBits - 1

Zero == {}

MinBit(x) == CHOOSE i \in x : \A j \in x : i <= j

MaxBit(x) == CHOOSE i \in x : \A j \in x : i >= j

\* x - 1 modulo 2^32.
Dec(x) == IF x = Zero THEN Bits ELSE (x \ {MinBit(x)}) \cup 0 .. MinBit(x) - 1

\* x + 1 modulo 2^32.
Inc(x) ==
    IF x = Bits THEN Zero
    ELSE LET z == MinBit(Bits \ x) IN (x \ 0 .. z - 1) \cup {z}

\* x >> k.
Shr(x, k) == {i - k : i \in {j \in x : j >= k}}

\* x |= x >> k.
OrShr(x, k) == x \cup Shr(x, k)

Pow2(x) == Inc(OrShr(OrShr(OrShr(OrShr(OrShr(Dec(x), 1), 2), 4), 8), 16))

IsPow2(x) == (x \cap Dec(x)) = Zero

\* The values with at most n one bits.
RECURSIVE BitsUpTo(_)
BitsUpTo(n) ==
    IF n = 0 THEN {Zero}
    ELSE LET p == BitsUpTo(n - 1) IN p \cup {s \cup {i} : s \in p, i \in Bits}

\* x with the bits of f flipped.
Flip(x, f) == (x \ f) \cup (f \ x)

\* The arguments: 2^k - 1 for k in 0 .. 32 with at most PowMaxBits bits
\* flipped.
PowInputs == {Flip(0 .. k - 1, f) : k \in 0 .. WordBits, f \in BitsUpTo(PowMaxBits)}

\* pw: a call of Pow2 and of IsPow2 with the argument x; r is the result once
\* the call has returned.
Pow2Call ==
    /\ pw.pc = "call"
    /\ pw' = [pw EXCEPT !.pc = "done", !.r = Pow2(pw.x), !.is = IsPow2(pw.x)]
    /\ UNCHANGED <<wth, attr, mbuf, smb>>
    /\ UNCHANGED atlasVars

(* ----------------------- state-tracking mesh buffer ------------------- *)

\* The data lists of the MeshBuffer in the order in which Delete handles
\* them, and the fields of a MeshDescriptor for each.
ListNames == <<"vertices", "textures", "normals", "colors", "indices">>

Start(md, i) ==
    <<md.VertexStart, md.TextureStart, md.NormalStart, md.ColorStart, md.IndexStart>>[i]

Count(md, i) ==
    <<md.VertexCount, md.TextureCount, md.NormalCount, md.ColorCount, md.IndexCount>>[i]

\* smb: a mesh buffer.
\*   meshes: mb.meshes; id is the number of the Append call that made the
\*           descriptor.
\*   list[i]: the data list ListNames[i]; an element is [id, v], id telling
\*            the Append call it came from and v the value of an index
\*            (0 in the other lists).
\*   state: mb.state.
\*   calls: the number of Append calls since creation or the last Clear.
\*   last, outcome: the last call and whether it returned or panicked.
NewSmb ==
    [meshes |-> <<>>, list |-> [i \in 1 .. 5 |-> <<>>], state |-> "mbDirty",
     calls |-> 0, last |-> "New", outcome |-> "ok"]

\* mb.Append(m) for a mesh of n[i] elements in list i whose indices have the
\* value v.
AppendResult(mb, n, v) ==
    LET id == mb.calls + 1
        md == [id |-> id,
               VertexStart |-> Len(mb.list[1]), VertexCount |-> n[1],
               TextureStart |-> Len(mb.list[2]), TextureCount |-> n[2],
               NormalStart |-> Len(mb.list[3]), NormalCount |-> n[3],
               ColorStart |-> Len(mb.list[4]), ColorCount |-> n[4],
               IndexStart |-> Len(mb.list[5]), IndexCount |-> n[5]]
        new(i) == [k \in 1 .. n[i] |->
                     [id |-> id, v |-> IF i = 5 THEN v + md.VertexStart ELSE 0]]
    IN  [mb EXCEPT !.meshes = Append(@, md),
                   !.list = [i \in 1 .. 5 |-> @[i] \o new(i)],
                   !.state = "mbDirty",
                   !.calls = id,
                   !.last = "Append", !.outcome = "ok"]

\* copy(l[s:], l[s+c:]); l = l[:len(l)-c]
RemoveRange(l, s, c) == SubSeq(l, 1, s) \o SubSeq(l, s + c + 1, Len(l))

\* The lists whose slice expressions l[s:], l[s+c:] panic.
OutOfRange(mb, md) == {i \in 1 .. 5 : Start(md, i) + Count(md, i) > Len(mb.list[i])}

\* mb.Delete(index): the lists are handled in turn, up to the first whose
\* slice expression panics.
DeleteResult(mb, index) ==
    IF index < 0 \/ index >= Len(mb.meshes)
    THEN [mb EXCEPT !.last = "Delete", !.outcome = "ok"]
    ELSE LET md == mb.meshes[index + 1]
             bad == OutOfRange(mb, md)
             cut == [mb EXCEPT
                       !.list = [i \in 1 .. 5 |->
                                   IF \A j \in bad : i < j
                                   THEN RemoveRange(@[i], Start(md, i), Count(md, i))
                                   ELSE @[i]],
                       !.last = "Delete"]
         IN  IF bad # {}
             THEN [cut EXCEPT !.outcome = "panic"]
             ELSE [cut EXCEPT !.meshes = RemoveRange(@, index, 1),
                              !.state = "mbDirty",
                              !.outcome = "ok"]

\* The number of elements stored in the five lists together.
SmbStored(mb) ==
    Len(mb.list[1]) + Len(mb.list[2]) + Len(mb.list[3]) + Len(mb.list[4])
        + Len(mb.list[5])

\* Append of a mesh whose indices refer to one of its vertices.
SmbAppend ==
    /\ smb.last # "Unused"
    /\ smb.calls < SmbCalls
    /\ \E n \in [1 .. 5 -> 0 .. SmbMaxList], v \in 0 .. SmbMaxList - 1 :
          /\ SmbStored(smb) + n[1] + n[2] + n[3] + n[4] + n[5] <= SmbMaxTotal
          /\ IF n[5] = 0 THEN v = 0 ELSE v < n[1]
          /\ smb' = AppendResult(smb, n, v)
    /\ UNCHANGED <<wth, attr, mbuf, pw>>
    /\ UNCHANGED atlasVars

SmbDelete ==
    /\ smb.last # "Unused"
    /\ \E index \in -1 .. SmbCalls : smb' = DeleteResult(smb, index)
    /\ UNCHANGED <<wth, attr, mbuf, pw>>
    /\ UNCHANGED atlasVars

\* mb.Clear()
SmbClear ==
    /\ smb.last # "Unused"
    /\ smb' = [NewSmb EXCEPT !.last = "Clear"]
    /\ UNCHANGED <<wth, attr, mbuf, pw>>
    /\ UNCHANGED atlasVars

(* --------------------------- specifications --------------------------- *)

\* Any atlas within the bounds, under Allocate (w > 0, h > 0) and Clear.
Init ==
    \E w \in 0 .. MaxWidth, h \in 0 .. MaxHeight, d \in Depths :
        /\ w * h * d <= MaxBytes
        /\ NewTextureAtlas(w, h, d)

Next == Allocate \/ Clear

Spec == Init /\ [][Next]_vars

\* A fresh atlas under a run of identical requests Allocate(w, h).
InitRow ==
    \E w \in 0 .. RowMaxWidth, h \in 0 .. RowMaxHeight, d \in Depths :
        NewTextureAtlas(w, h, d)

AllocateSame ==
    \E w \in 1 .. RowMaxWidth, h \in 1 .. RowMaxHeight :
        /\ op.name = "Allocate" => (op.w = w /\ op.h = h)
        /\ AllocateCall(w, h)

NextRow == AllocateSame

SpecRow == InitRow /\ [][NextRow]_vars

\* The atlas of the concrete scenario: NewTextureAtlas(16, 16, 1), and its
\* first ScnCalls allocations.
InitScenario == NewTextureAtlas(16, 16, 1)

AllocateFirst ==
    /\ Cardinality(regions) < ScnCalls
    /\ \E w \in 1 .. ScnMaxReq, h \in 1 .. ScnMaxReq : AllocateCall(w, h)

NextScenario == AllocateFirst

SpecScenario == InitScenario /\ [][NextScenario]_vars

\* Small atlases under Allocate, Clear and Set.
InitPix ==
    \E w \in 0 .. PixMaxWidth, h \in 0 .. PixMaxHeight, d \in Depths :
        /\ w * h * d <= PixMaxBytes
        /\ NewTextureAtlas(w, h, d)

NextPix == Allocate \/ Clear \/ Set

SpecPix == InitPix /\ [][NextPix]_vars

\* The whole life of one atlas: construction with any depth, then Allocate,
\* Clear, Set and Release in any order, also after Release.
InitLife ==
    /\ width = 0
    /\ height = 0
    /\ depth = 0
    /\ used = 0
    /\ data = <<>>
    /\ nodes = <<>>
    /\ texture = 0
    /\ gl = [gen |-> 0, deleted |-> <<>>]
    /\ life = "none"
    /\ regions = {}
    /\ op = OpRec("Start", 0, 0, "ok", NoRegion)
    /\ pre = Snapshot(nodes, used, data, regions)
    /\ nsets = 0
    /\ nrel = 0
    /\ calls = NoCalls
    /\ SidesUnused

NextLife == Construct \/ Allocate \/ Clear \/ Set \/ Release

SpecLife == InitLife /\ [][NextLife]_vars

\* Two callers on one atlas, each Allocate in two steps that interleave
\* freely with the steps of the other caller.
InitRace ==
    /\ \E w \in 3 .. RaceMaxWidth, h \in 3 .. RaceMaxHeight :
          NewTextureAtlas(w, h, 1)

NextRace == (\E p \in Callers : RaceScan(p) \/ RaceCommit(p)) \/ RaceClear

SpecRace == InitRace /\ [][NextRace]_vars

\* Allocate with arguments inside and outside its precondition, and Clear.
InitAny ==
    \E w \in 3 .. AnyMaxWidth, h \in 3 .. AnyMaxHeight : NewTextureAtlas(w, h, 1)

NextAny == AllocateAny \/ Clear

SpecAny == InitAny /\ [][NextAny]_vars

\* Calls of With, with or without a GL error pending at the first one.
InitWith ==
    /\ AtlasUnused
    /\ \E e \in BOOLEAN : wth = WithStart(e)
    /\ attr = Unused /\ mbuf = Unused /\ pw = Unused /\ smb = Unused

NextWith ==
    WithCall \/ WithCheck1 \/ WithEnter \/ WithAction \/ WithExit \/ WithCheck2

SpecWith == InitWith /\ [][NextWith]_vars

\* One attribute of any type under Append, Remove, Increment, Clear and
\* Buffer.
InitAttr ==
    /\ AtlasUnused
    /\ \E typ \in AttrTypes, size \in 1 .. AttrMaxSize : attr = NewAttr(typ, size)
    /\ wth = Unused /\ mbuf = Unused /\ pw = Unused /\ smb = Unused

NextAttr == AttrAppend \/ AttrRemove \/ AttrIncrement \/ AttrClear \/ AttrBuffer

SpecAttr == InitAttr /\ [][NextAttr]_vars

\* One mesh buffer under Add and Clear; any of its attributes may be omitted,
\* and the others have the same size.
InitMesh ==
    /\ AtlasUnused
    /\ \E s \in 1 .. MeshMaxSize :
          \E size \in [1 .. 5 -> {0, s}] : mbuf = NewMeshBuffer(size)
    /\ wth = Unused /\ attr = Unused /\ pw = Unused /\ smb = Unused

NextMesh == MeshAdd \/ MeshClear

SpecMesh == InitMesh /\ [][NextMesh]_vars

\* Pow2 and IsPow2 applied to one argument.
InitPow ==
    /\ AtlasUnused
    /\ \E x \in PowInputs : pw = [pc |-> "call", x |-> x, r |-> Zero, is |-> FALSE]
    /\ wth = Unused /\ attr = Unused /\ mbuf = Unused /\ smb = Unused

NextPow == Pow2Call

SpecPow == InitPow /\ [][NextPow]_vars

\* One state-tracking mesh buffer under Append, Delete and Clear.
InitSmb ==
    /\ AtlasUnused
    /\ smb = NewSmb
    /\ wth = Unused /\ attr = Unused /\ mbuf = Unused /\ pw = Unused

NextSmb == SmbAppend \/ SmbDelete \/ SmbClear

SpecSmb == InitSmb /\ [][NextSmb]_vars

(* ------------------------------ properties ---------------------------- *)

\* The last call was an Allocate; it succeeded; it failed.
Called == op.name = "Allocate"
Allocated == Called /\ op.outcome = "ok"
Refused == Called /\ op.outcome = "fail"

\* The rectangles [X, X+W) x [Y, Y+H) of r1 and r2 have no pixel in common.
Disjoint(r1, r2) ==
    \/ r1.X + r1.W <= r2.X
    \/ r2.X + r2.W <= r1.X
    \/ r1.Y + r1.H <= r2.Y
    \/ r2.Y + r2.H <= r1.Y

\* Node i of ns has a valid fit for (w, h) in this atlas; the y of that fit.
FitY(ns, i, w, h) == fit(ns, width, height, i, w, h).y
ValidFit(ns, i, w, h) ==
    /\ ~fit(ns, width, height, i, w, h).panic
    /\ FitY(ns, i, w, h) >= 0

\* C1 Non-overlap: the regions returned since construction or the last Clear
\* are pairwise disjoint, and a region just returned is disjoint from every
\* region returned before it.
C1_NonOverlap ==
    /\ \A r1, r2 \in regions : r1 # r2 => Disjoint(r1, r2)
    /\ Allocated => \A r \in pre.regions : Disjoint(op.region, r)

\* A region has just been placed on top of others, next to others.
C1_Witness ==
    /\ Allocated
    /\ Cardinality(regions) >= 3
    /\ op.region.Y > 1
    /\ op.region.X > 1

\* C2 Bounds: every returned region lies inside the one-pixel border.
C2_Bounds ==
    \A r \in regions \cup (IF Allocated THEN {op.region} ELSE {}) :
        /\ r.X >= 1
        /\ r.Y >= 1
        /\ r.X + r.W <= width - 1
        /\ r.Y + r.H <= height - 1

\* A region has just been returned that ends at the last usable column and row.
C2_Witness ==
    /\ Allocated
    /\ op.region.X > 1
    /\ op.region.X + op.region.W = width - 1
    /\ op.region.Y + op.region.H = height - 1

\* The node list ns tiles [1, w-1): ascending x, positive widths, no gaps.
Tiling(ns, w) ==
    /\ Len(ns) >= 1
    /\ ns[1].x = 1
    /\ ns[Len(ns)].x + ns[Len(ns)].z = w - 1
    /\ \A i \in 1 .. Len(ns) : ns[i].z > 0
    /\ \A i \in 1 .. Len(ns) - 1 :
          /\ ns[i].x < ns[i + 1].x
          /\ ns[i].x + ns[i].z = ns[i + 1].x

\* C3 as stated: in every atlas, after construction and any Allocate and
\* Clear calls, the node list tiles [1, width-1) with nodes of width > 0.
C3_TilingEveryAtlas == Tiling(nodes, width)

\* C3 Tiling invariant, amended: in an atlas of width >= 3, after
\* construction and any Allocate (w > 0, h > 0) and Clear calls, the node
\* list tiles [1, width-1) with nodes of width > 0.
C3_Tiling == width >= 3 => Tiling(nodes, width)

\* An Allocate has just covered a whole node and part of the next one.
C3_Witness ==
    /\ width >= 3
    /\ Allocated
    /\ Len(nodes) >= 2
    /\ \E i \in 1 .. Len(pre.nodes) - 1 :
          /\ pre.nodes[i].x = op.region.X
          /\ pre.nodes[i].z < op.w
          /\ pre.nodes[i].z + pre.nodes[i + 1].z > op.w

\* Node i is at least as good as node j for (w, h): lower top edge, then
\* narrower node, then lower index.
Preferred(ns, i, j, w, h) ==
    LET ti == FitY(ns, i, w, h) + h
        tj == FitY(ns, j, w, h) + h
    IN  \/ ti < tj
        \/ ti = tj /\ ns[i].z < ns[j].z
        \/ ti = tj /\ ns[i].z = ns[j].z /\ i <= j

\* C4 Selection policy: a successful Allocate(w, h) returns X = node[i].x and
\* Y = fit(i, w, h) for the node i with a valid fit that minimises
\* fit + h, then the node's width, then the index.
C4_Selection ==
    Allocated =>
        \E i \in 1 .. Len(pre.nodes) :
            /\ ValidFit(pre.nodes, i, op.w, op.h)
            /\ op.region = AtlasRegion(pre.nodes[i].x, FitY(pre.nodes, i, op.w, op.h),
                                       op.w, op.h)
            /\ \A j \in 1 .. Len(pre.nodes) :
                  ValidFit(pre.nodes, j, op.w, op.h)
                      => Preferred(pre.nodes, i, j, op.w, op.h)

\* An Allocate has just chosen a node over an earlier, wider node that
\* gives the same top edge.
C4_Witness ==
    /\ Allocated
    /\ \E i, j \in 1 .. Len(pre.nodes) :
          /\ j < i
          /\ ValidFit(pre.nodes, i, op.w, op.h)
          /\ ValidFit(pre.nodes, j, op.w, op.h)
          /\ FitY(pre.nodes, i, op.w, op.h) = FitY(pre.nodes, j, op.w, op.h)
          /\ pre.nodes[i].z < pre.nodes[j].z
          /\ op.region.X = pre.nodes[i].x

\* C5: Allocate(w, h) fails exactly when no node has a valid fit for (w, h),
\* and otherwise succeeds.
C5_FailsIffNoFit ==
    Called =>
        /\ op.outcome \in {"ok", "fail"}
        /\ op.outcome = "fail"
              <=> \A i \in 1 .. Len(pre.nodes) : ~ValidFit(pre.nodes, i, op.w, op.h)

\* An Allocate of a size the empty atlas could hold has just failed.
C5_Witness ==
    /\ Refused
    /\ regions # {}
    /\ op.w <= width - 2
    /\ op.h <= height - 2

\* C6: a failing Allocate returns false without panicking and leaves the
\* node list, used and the pixel buffer as they were.
C6_FailureChangesNothing ==
    (Called /\ op.outcome # "ok") =>
        /\ op.outcome = "fail"
        /\ nodes = pre.nodes
        /\ used = pre.used
        /\ data = pre.data

\* An Allocate has just failed on an atlas holding regions and pixels.
C6_Witness ==
    /\ Refused
    /\ used > 0
    /\ Len(nodes) >= 2
    /\ \E k \in DOMAIN data : data[k] # 0

\* C7 Merge invariant: no two adjacent nodes have the same y.
C7_NoEqualNeighbours ==
    \A i \in 1 .. Len(nodes) - 1 : nodes[i].y # nodes[i + 1].y

\* An Allocate has just replaced one node exactly, and the new node was
\* fused with both of its neighbours.
C7_Witness ==
    /\ Allocated
    /\ Len(nodes) = Len(pre.nodes) - 2
    /\ \E i \in 1 .. Len(pre.nodes) :
          /\ pre.nodes[i].x = op.region.X
          /\ pre.nodes[i].z = op.w

\* C8 Concrete scenario: the 16 x 16 x 1 atlas starts with nodes [{1,1,14}];
\* the first Allocate(4,4) returns {1,1,4,4} and leaves [{1,5,4},{5,1,10}];
\* the second returns {5,1,4,4} and leaves [{1,5,8},{9,1,6}].
C8_Scenario ==
    /\ op.name = "New" => nodes = <<atlasNode(1, 1, 14)>>
    /\ (Called /\ op.w = 4 /\ op.h = 4 /\ pre.regions = {}) =>
          /\ op.outcome = "ok"
          /\ op.region = AtlasRegion(1, 1, 4, 4)
          /\ nodes = <<atlasNode(1, 5, 4), atlasNode(5, 1, 10)>>
    /\ (Called /\ op.w = 4 /\ op.h = 4 /\ pre.regions = {AtlasRegion(1, 1, 4, 4)}) =>
          /\ op.outcome = "ok"
          /\ op.region = AtlasRegion(5, 1, 4, 4)
          /\ nodes = <<atlasNode(1, 5, 8), atlasNode(9, 1, 6)>>

\* The second Allocate(4,4) of the scenario has just returned.
C8_Witness ==
    /\ width = 16 /\ height = 16 /\ depth = 1
    /\ Called /\ op.w = 4 /\ op.h = 4
    /\ pre.regions = {AtlasRegion(1, 1, 4, 4)}

\* The place of request number n (from 0) in a run of requests (w, h).
RowX(n, w) == 1 + (n % ((width - 2) \div w)) * w
RowY(n, w, h) == 1 + (n \div ((width - 2) \div w)) * h

\* C9 Best-fit monotonicity: in a run of identical requests Allocate(w, h)
\* on a fresh atlas, 0 < w <= width-2, request number n is placed at
\* X = 1 + (n mod k) * w, Y = 1 + (n div k) * h with k = (width-2) div w,
\* as long as the height holds that row.
C9_RowsLeftToRight ==
    (Called /\ op.w <= width - 2) =>
        LET n == Cardinality(pre.regions)
        IN  RowY(n, op.w, op.h) + op.h <= height - 1 =>
                /\ op.outcome = "ok"
                /\ op.region = AtlasRegion(RowX(n, op.w), RowY(n, op.w, op.h),
                                           op.w, op.h)

\* A request has just been placed in a row above the first, right of its
\* first place, in an atlas whose rows leave columns over.
C9_Witness ==
    /\ Allocated
    /\ op.region.Y > 1
    /\ op.region.X > 1
    /\ (width - 2) % op.w # 0
    /\ Cardinality(regions) >= 5

\* C10 Exhaustion: on a fresh atlas with width >= 3 and height >= 3 the
\* first Allocate(width-2, height-2) returns {1, 1, width-2, height-2} and
\* every further one before a Clear fails.
C10_Exhaustion ==
    (Called /\ width >= 3 /\ height >= 3 /\ op.w = width - 2 /\ op.h = height - 2) =>
        /\ pre.regions = {} =>
              /\ op.outcome = "ok"
              /\ op.region = AtlasRegion(1, 1, width - 2, height - 2)
        /\ AtlasRegion(1, 1, width - 2, height - 2) \in pre.regions =>
              op.outcome = "fail"

\* A second Allocate(width-2, height-2) has just failed.
C10_Witness ==
    /\ Refused
    /\ width >= 3 /\ height >= 3
    /\ op.w = width - 2 /\ op.h = height - 2
    /\ pre.regions = {AtlasRegion(1, 1, width - 2, height - 2)}

\* C11 Oversize requests always fail: Allocate(w, h) with w > width-2 or
\* h > height-2 returns failure, whatever the atlas holds.
C11_OversizeFails ==
    (Called /\ (op.w > width - 2 \/ op.h > height - 2)) => op.outcome = "fail"

\* A request too high for the atlas, but not too wide, has just been made
\* of an atlas that holds a region and still has a free column.
C11_Witness ==
    /\ Called
    /\ op.h > height - 2
    /\ op.w <= width - 2
    /\ regions # {}
    /\ \E i \in 1 .. Len(nodes) : nodes[i].y = 1 /\ nodes[i].z >= op.w

\* The last call was a Set; it returned normally.
SetCalled == op.name = "Set"
SetReturned == SetCalled /\ op.outcome = "ok"

\* Offset k of the pixel buffer belongs to a pixel of region's rectangle.
InRegion(k, region) ==
    LET p == k \div depth
        x == p % width
        y == p \div width
    IN  /\ region.X <= x /\ x < region.X + region.W
        /\ region.Y <= y /\ y < region.Y + region.H

\* C12 Round-trip pixel copy: after Set(region, src, stride) returns, for a
\* region returned since the last Clear, any stride and a source of at least
\* region.H * stride bytes, each row r of the region reads back from offset
\* ((region.Y + r) * width + region.X) * depth as src[r*stride, (r+1)*stride).
C12_RoundTrip ==
    (SetReturned /\ op.region \in pre.regions /\ op.h >= op.region.H * op.w) =>
        \A r \in 0 .. op.region.H - 1 : \A j \in 0 .. op.w - 1 :
            LET at == ((op.region.Y + r) * width + op.region.X) * depth + j
            IN  /\ at \in DOMAIN data
                /\ data[at] = SrcBytes(op.d, op.h)[r * op.w + j]

\* C13 Set never silently corrupts unrelated regions: a Set call that returns
\* normally has changed no byte outside the rectangle of the region it was
\* given; a call that would do so panics instead.
C13_NoSilentCorruption ==
    SetReturned =>
        \A k \in DOMAIN data : data[k] # pre.data[k] => InRegion(k, op.region)

\* The last call was a Clear that returned.
Cleared == op.name = "Clear" /\ op.outcome = "ok"

\* C14 Clear returns the atlas to its freshly constructed state: after a
\* Clear, used = 0, the node list is [{x:1, y:1, width: width-2}] and every
\* byte is 0, which are the nodes, used and pixels NewTextureAtlas(width,
\* height, depth) produces; a second Clear changes nothing further.
C14_ClearIsFresh ==
    Cleared =>
        /\ used = 0
        /\ nodes = <<atlasNode(1, 1, width - 2)>>
        /\ \A k \in DOMAIN data : data[k] = 0
        /\ LET new == NewResult(width, height, depth)
           IN  nodes = new.nodes /\ used = new.used /\ data = new.data
        /\ LET again == ClearResult(nodes, data, width)
           IN  ~again.panic /\ nodes = again.nodes /\ used = again.used
                            /\ data = again.data

\* A Clear of an atlas that held regions, a skyline of several nodes and
\* written pixels.
C14_Witness ==
    /\ Cleared
    /\ pre.used > 0
    /\ Len(pre.nodes) >= 2
    /\ \E k \in DOMAIN pre.data : pre.data[k] # 0

\* The sum of W * H over a set of regions.
RECURSIVE Area(_)
Area(rs) ==
    IF rs = {} THEN 0
    ELSE LET r == CHOOSE r \in rs : TRUE
         IN  r.W * r.H + Area(rs \ {r})

Constructed == op.name = "New"

\* C16 Construction error: NewTextureAtlas with depth not in {1, 3, 4} panics
\* before any state is created (no pixel buffer, no node, no texture handle
\* requested); with depth in {1, 3, 4} it succeeds.
C16_ConstructionError ==
    Constructed =>
        /\ op.d \notin {1, 3, 4} =>
              /\ op.outcome = "panic"
              /\ life = "none"
              /\ data = <<>>
              /\ nodes = <<>>
              /\ gl.gen = 0
              /\ texture = 0
        /\ op.d \in {1, 3, 4} =>
              /\ op.outcome = "ok"
              /\ life = "live"
              /\ depth = op.d
              /\ gl.gen = 1

\* NewTextureAtlas refused a depth for an atlas of non-zero size.
C16_Witness ==
    /\ Constructed
    /\ op.outcome = "panic"
    /\ op.d = 2
    /\ op.w >= 3
    /\ op.h >= 3

\* C17 Released-state violation: after Release, every Allocate, Set or Clear
\* panics; none returns normally, and Allocate does not report an ordinary
\* allocation failure.
C17_ReleasedIsFatal ==
    (life = "released" /\ op.name \in {"Allocate", "Set", "Clear"}) =>
        op.outcome = "panic"

\* C19 Texture-handle lifecycle: the atlas requests its handle exactly once,
\* at construction; Allocate, Set and Clear never request or delete a handle;
\* once Release has been called, the backend's delete has been invoked
\* exactly once, on the handle obtained at construction, however many
\* Release calls there were.
C19_DeleteOnce ==
    /\ gl.gen = (IF life = "none" THEN 0 ELSE 1)
    /\ nrel = 0 => gl.deleted = <<>>
    /\ nrel >= 1 => gl.deleted = <<1>>

\* C19 (as the code has it) The atlas requests its handle exactly once, at
\* construction; Allocate, Set and Clear never request or delete a handle;
\* the backend's delete is invoked once per Release call: by the first on
\* the handle obtained at construction, by every later one on the zero
\* handle that Release leaves in a.texture.
C19_HandleLifecycle ==
    /\ gl.gen = (IF life = "none" THEN 0 ELSE 1)
    /\ texture = (IF life = "live" THEN 1 ELSE 0)
    /\ Len(gl.deleted) = nrel
    /\ \A i \in 1 .. Len(gl.deleted) : gl.deleted[i] = (IF i = 1 THEN 1 ELSE 0)

\* Release was called twice, with Allocate, Set and Clear calls made on the
\* atlas before it.
C19_Witness ==
    /\ nrel = 2
    /\ op.name = "Release"
    /\ Len(gl.deleted) = 2
    /\ pre.regions # {}
    /\ nsets >= 1

\* C20 Frame conditions: Allocate, successful or not, changes no byte of the
\* pixel buffer; Set changes neither the node list nor used; Allocate, Set
\* and Clear change none of width, height and depth.
C20_Frames ==
    /\ [](Called => data = pre.data)
    /\ [](SetCalled => (nodes = pre.nodes /\ used = pre.used))
    /\ [][op'.name \in {"Allocate", "Set", "Clear"} =>
             (width' = width /\ height' = height /\ depth' = depth)]_vars

\* An Allocate returned a region from an atlas whose buffer holds written
\* pixels.
C20_Witness ==
    /\ Allocated
    /\ nsets >= 1
    /\ \E k \in DOMAIN data : data[k] # 0

\* C18 The atlas is not safe for concurrent mutation: when the steps of two
\* Allocate calls interleave (both scan before either inserts its node) the
\* callers can be returned overlapping regions and the node list can stop
\* tiling [1, width-1); as long as every Allocate and Clear has run
\* atomically, returned regions are pairwise disjoint, a region just returned
\* is disjoint from those returned before it, and the node list tiles.
C18_SerializedIsSafe ==
    ~calls.raced =>
        /\ \A r1, r2 \in regions : r1 # r2 => Disjoint(r1, r2)
        /\ Allocated => \A r \in pre.regions : Disjoint(op.region, r)
        /\ Tiling(nodes, width)

\* Two calls interleaved; the second to return was given a region that
\* overlaps one returned before, and the node list no longer tiles.
C18_Witness ==
    /\ calls.raced
    /\ Allocated
    /\ \E r \in pre.regions : ~Disjoint(op.region, r)
    /\ ~Tiling(nodes, width)

\* The skyline height of node list ns at column c: the y of the node whose
\* extent [x, x + z) holds c.
Height(ns, c) ==
    LET i == CHOOSE i \in 1 .. Len(ns) : ns[i].x <= c /\ c < ns[i].x + ns[i].z
    IN  ns[i].y

\* C25 Skyline update: after a successful Allocate(w, h) returning r the
\* height is r.Y + h at every column of [r.X, r.X + w) and unchanged at every
\* other column of [1, width-1); the node inserted, before merging, is
\* {x: r.X, y: r.Y + h, width: w}.
C25_SkylineUpdate ==
    Allocated =>
        LET r == op.region
            b == bestScan(pre.nodes, width, height, op.w, op.h)
            mid == insertNode(pre.nodes, b, op.w, op.h)
        IN  /\ \A c \in 1 .. width - 2 :
                 Height(nodes, c) = IF r.X <= c /\ c < r.X + op.w
                                    THEN r.Y + op.h
                                    ELSE Height(pre.nodes, c)
            /\ mid[b.index] = atlasNode(r.X, r.Y + op.h, op.w)
            /\ nodes = merge(mid)

\* The region was placed across two nodes or more, with columns to its left
\* and to its right.
C25_Witness ==
    /\ Allocated
    /\ Len(pre.nodes) >= 3
    /\ op.region.X > 1
    /\ op.region.X + op.w < width - 1
    /\ \E i \in 1 .. Len(pre.nodes) :
          pre.nodes[i].x = op.region.X /\ pre.nodes[i].z < op.w

\* The sum of the widths of nodes i .. j of ns.
RECURSIVE SumZ(_, _, _)
SumZ(ns, i, j) == IF j < i THEN 0 ELSE ns[j].z + SumZ(ns, i, j - 1)

\* The last node of the shortest run of nodes starting at i whose widths sum
\* to at least w.
RunEnd(ns, i, w) ==
    CHOOSE j \in i .. Len(ns) :
        /\ SumZ(ns, i, j) >= w
        /\ \A k \in i .. j - 1 : SumZ(ns, i, k) < w

\* The largest of a non-empty set of integers.
Max(S) == CHOOSE m \in S : \A n \in S : n <= m

\* M of fit(i, w, h): the largest y over the run, and over the columns.
RunMax(ns, i, w) == Max({ns[k].y : k \in i .. RunEnd(ns, i, w)})
ColumnMax(ns, i, w) == Max({Height(ns, c) : c \in ns[i].x .. ns[i].x + w - 1})

C27_AllocateTerminates ==
    /\ Called => op.outcome # "panic"
    /\ \A w \in 1 .. width + 1, h \in 1 .. height + 1 :
          /\ \A i \in 1 .. Len(nodes) : ~fit(nodes, width, height, i, w, h).panic
          /\ ~AllocateResult(nodes, used, width, height, w, h).panic

\* An Allocate whose scan ran up to the last node of a list of two nodes or
\* more: the region ends at the right border and lies across two nodes or
\* more; a Set was made before it.
C27_Witness ==
    /\ Allocated
    /\ nsets >= 1
    /\ Len(pre.nodes) >= 2
    /\ op.region.X + op.w = width - 1
    /\ \E i \in 1 .. Len(pre.nodes) :
          pre.nodes[i].x = op.region.X /\ pre.nodes[i].z < op.w

\* C28 Requests outside the precondition are rejected without harm:
\* Allocate(w, h) with w <= 0 or h <= 0 returns failure and leaves the node
\* list and used unchanged, so every node keeps a width > 0.
C28_BadRequestRejected ==
    (Called /\ (op.w <= 0 \/ op.h <= 0)) =>
        /\ op.outcome = "fail"
        /\ nodes = pre.nodes
        /\ used = pre.used
        /\ (\A i \in 1 .. Len(pre.nodes) : pre.nodes[i].z > 0) =>
              \A i \in 1 .. Len(nodes) : nodes[i].z > 0

\* The number of times call c is in trace t.
Times(t, c) == Cardinality({i \in 1 .. Len(t) : t[i] = c})

\* t is the beginning of s.
IsPrefix(t, s) == Len(t) <= Len(s) /\ \A i \in 1 .. Len(t) : t[i] = s[i]

\* With has finished, by returning or by panicking.
WithDone == wth.pc = "done"

\* C21 as stated: With runs GL error check, c.Enter, action, c.Exit, GL error
\* check in this order; c.Enter and action are each called exactly once; and
\* whenever c.Enter has returned, c.Exit is called exactly once after action,
\* also when action panics.
C21_WithAlwaysEnters ==
    /\ IsPrefix(wth.trace, <<"check", "Enter", "action", "Exit", "check">>)
    /\ WithDone =>
          /\ Times(wth.trace, "Enter") = 1
          /\ Times(wth.trace, "action") = 1

\* C21 (as the code has it) With makes its calls in the order GL error check,
\* c.Enter, action, c.Exit, GL error check. When the first check finds an
\* error With panics and calls nothing else. Otherwise c.Enter is called
\* exactly once; when it panics only the last check follows; when it returns,
\* action is called exactly once and c.Exit exactly once after it, also when
\* action panics, and the last check follows. So when Enter and Exit both
\* return, what Enter changed is restored when With is left.
C21_WithOrder ==
    /\ \/ IsPrefix(wth.trace, <<"check", "Enter", "action", "Exit", "check">>)
       \/ wth.trace = <<"check", "Enter", "check">>
    /\ WithDone =>
          \/ wth.trace = <<"check">> /\ wth.panicking
          \/ wth.trace = <<"check", "Enter", "check">> /\ wth.panicking
          \/ wth.trace = <<"check", "Enter", "action", "Exit", "check">>
    /\ (WithDone /\ ~wth.panicking) => wth.entered = 0

\* With is left by a panic of action, after c.Exit and the last check were
\* called.
C21_Witness ==
    /\ WithDone
    /\ wth.panicking
    /\ wth.trace = <<"check", "Enter", "action", "Exit", "check">>
    /\ wth.entered = 0
    /\ wth.k = 2

\* C22 Dirty flag of mesh attributes: for every typed attribute and every
\* sequence of Append, Remove, Increment, Clear and Buffer calls, Dirty() is
\* true exactly when Append, Remove, Increment or Clear was called since the
\* last Buffer (or since creation); it is false right after Buffer.
C22_DirtyTracksChanges ==
    /\ attr.dirty = attr.changed
    /\ (attr.last = "Buffer" /\ attr.outcome = "ok") => ~attr.dirty

\* The start and count fields of a Mesh for mb.attr[i].
MeshStart(m, i) == <<m.PS, m.CS, m.NS, m.TS, m.IS>>[i]

MeshCount(m, i) == <<m.PC, m.CC, m.NC, m.TC, m.IC>>[i]

\* C23 MeshBuffer.Add records the offsets of the mesh it appends: for each
\* attribute of non-zero size the start field of the new Mesh is the number of
\* components stored in the attribute before the call and its count field the
\* number of components the call appended; Add returns the index of the Mesh
\* in Meshes(), the number of meshes added before it since the last Clear.
C23_AddRecordsOffsets ==
    (mbuf.last = "Add" /\ mbuf.outcome = "ok") =>
        LET m == mbuf.meshes[Len(mbuf.meshes)]
        IN  /\ \A i \in 1 .. 5 :
                  mbuf.size[i] > 0 =>
                      /\ MeshStart(m, i) = mbuf.before[i] \div mbuf.size[i]
                      /\ MeshCount(m, i) = mbuf.lists[i] \div mbuf.size[i]
            /\ mbuf.ret = Len(mbuf.meshes) - 1

\* 2^k >= x, for k in 0 .. 32.
PowerGeq(k, x) == x = Zero \/ MaxBit(x) < k \/ x = {k}

\* The smallest power of two that is >= x, modulo 2^32.
SmallestPow2(x) ==
    LET k == CHOOSE i \in 0 .. WordBits :
                 PowerGeq(i, x) /\ \A j \in 0 .. i - 1 : ~PowerGeq(j, x)
    IN  IF k = WordBits THEN Zero ELSE {k}

\* C24 Pow2(x) returns, for every 32-bit unsigned x, the smallest power of two
\* that is greater than or equal to x, arithmetic taken modulo 2^32.
C24_Pow2Smallest ==
    pw.pc = "done" => pw.r = SmallestPow2(pw.x)

\* The range of md in list i lies inside the list and holds exactly the
\* elements that the Append call of md put there.
RangeValid(mb, md, i) ==
    /\ Start(md, i) >= 0
    /\ Start(md, i) + Count(md, i) <= Len(mb.list[i])
    /\ \A k \in 1 .. Len(mb.list[i]) :
          (mb.list[i][k].id = md.id) <=>
              (Start(md, i) < k /\ k <= Start(md, i) + Count(md, i))

\* Every index of md refers to a vertex of md.
IndicesValid(mb, md) ==
    \A k \in md.IndexStart + 1 .. md.IndexStart + md.IndexCount :
        k <= Len(mb.list[5]) =>
            /\ mb.list[5][k].v >= md.VertexStart
            /\ mb.list[5][k].v < md.VertexStart + md.VertexCount

\* C29 Mesh descriptors of the state-tracking MeshBuffer stay valid under
\* deletion: after any sequence of Append and Delete calls the ranges of every
\* remaining MeshDescriptor lie inside the data lists and select exactly the
\* data appended for that mesh, and each of its index values refers to a
\* vertex inside its own vertex range.
C29_DescriptorsValid ==
    smb.last # "Unused" =>
        \A m \in 1 .. Len(smb.meshes) :
            /\ \A i \in 1 .. 5 : RangeValid(smb, smb.meshes[m], i)
            /\ IndicesValid(smb, smb.meshes[m])

====
